---- MODULE Spec2Model ----
(***************************************************************************)
(* Model of Tools/py/uasset_patcher.py: the UAssetParser class, which      *)
(* loads a package asset from bytes, appends names and imports while       *)
(* relocating header offsets, and writes the buffer back.                  *)
(*                                                                         *)
(* A buffer is a sequence of bytes (0..255), 1-based here and 0-based in   *)
(* the source: byte k of the source is data[k + 1].  A Python str is a     *)
(* sequence of code points.  32-bit unsigned and 64-bit signed quantities  *)
(* exceed the range of the checker's integers and are kept in limbs:       *)
(* a uint32 is [hi, lo] with value hi * 2^16 + lo, an int64 is [hi, lo]    *)
(* with hi the signed upper 32 bits and lo the unsigned lower 32 bits.     *)
(***************************************************************************)
EXTENDS Integers, Sequences, FiniteSets, TLC

(***************************************************************************)
(* Bounds of the model.                                                    *)
(***************************************************************************)
\* Number of add_name / add_import calls made on one loaded asset.
MaxCalls == 2

(***************************************************************************)
(* Program constants.                                                      *)
(***************************************************************************)
MAGIC == [hi |-> 40490, lo |-> 33729]   \* 0x9E2A83C1
NAME_COUNT_POS == 41
NAME_OFFSET_POS == 45
EXPORT_COUNT_POS == 49
EXPORT_OFFSET_POS == 53
IMPORT_COUNT_POS == 57
IMPORT_OFFSET_POS == 61
DEPENDS_OFFSET_POS == 65
IMPORT_ENTRY_SIZE == 28
EXPORT_ENTRY_SIZE == 104
EXPORT_SCAN_LIMIT == 100
NAME_SANITY_LIMIT == 10000

Min(a, b) == IF a < b THEN a ELSE b
Max(a, b) == IF a > b THEN a ELSE b

(***************************************************************************)
(* Python slicing data[a:b]: negative indices count from the end, both     *)
(* ends are clamped to the buffer, an empty range gives an empty slice.    *)
(***************************************************************************)
SliceIndex(data, i) ==
    IF i < 0 THEN Max(i + Len(data), 0) ELSE Min(i, Len(data))

Slice(data, a, b) ==
    SubSeq(data, SliceIndex(data, a) + 1, SliceIndex(data, b))

\* Variant: the entry replaces the bytes at pos instead of moving them
Splice_Overwrite(data, pos, entry) ==
    SubSeq(data, 1, SliceIndex(data, pos)) \o entry
        \o SubSeq(data, SliceIndex(data, pos) + Len(entry) + 1, Len(data))

\* data[pos:pos] = entry
Splice(data, pos, entry) ==
    SubSeq(data, 1, SliceIndex(data, pos)) \o entry
        \o SubSeq(data, SliceIndex(data, pos) + 1, Len(data))

\* data[offset:offset + 4] = four (slice assignment of equal or other length)
Overwrite(data, offset, four) ==
    LET a == SliceIndex(data, offset)
        b == Max(a, SliceIndex(data, offset + 4))
    IN  SubSeq(data, 1, a) \o four \o SubSeq(data, b + 1, Len(data))

(***************************************************************************)
(* struct.unpack / struct.pack, little-endian.  An unpack of a slice that  *)
(* is not exactly as long as the format raises struct.error: CanRead says  *)
(* when it does not.                                                       *)
(***************************************************************************)
CanRead(data, offset, width) == Len(Slice(data, offset, offset + width)) = width

\* struct.unpack('<i', four)
UnpackInt32(four) ==
    IF four[4] >= 128
    THEN 16777216 * (four[4] - 256) + (65536 * four[3] + 256 * four[2] + four[1])
    ELSE 16777216 * four[4] + 65536 * four[3] + 256 * four[2] + four[1]

\* struct.unpack('<I', four)
UnpackUint32(four) ==
    [hi |-> 256 * four[4] + four[3], lo |-> 256 * four[2] + four[1]]

_read_int32(data, offset) == UnpackInt32(Slice(data, offset, offset + 4))

_read_uint32(data, offset) == UnpackUint32(Slice(data, offset, offset + 4))

_read_int64(data, offset) ==
    [hi |-> UnpackInt32(Slice(data, offset + 4, offset + 8)),
     lo |-> UnpackUint32(Slice(data, offset, offset + 4))]

\* struct.pack('<i', value), for value in the int32 range
PackInt32(value) ==
    LET u  == IF value < 0 THEN value + 2147483647 + 1 ELSE value
        b4 == (u \div 16777216) + (IF value < 0 THEN 128 ELSE 0)
    IN  << u % 256, (u \div 256) % 256, (u \div 65536) % 256, b4 >>

\* struct.pack('<I', value), for a uint32 in limbs
PackUint32(value) ==
    << value.lo % 256, value.lo \div 256, value.hi % 256, value.hi \div 256 >>

\* struct.pack('<q', value), for value in the int32 range (sign-extended)
PackInt64(value) ==
    PackInt32(value) \o (IF value < 0 THEN <<255, 255, 255, 255>> ELSE <<0, 0, 0, 0>>)

_write_int32(data, offset, value) == Overwrite(data, offset, PackInt32(value))

\* An int64 in limbs as a small integer index: 0 <= idx < n, for n < 2^16
Int64InRange(idx, n) == idx.hi = 0 /\ idx.lo.hi = 0 /\ idx.lo.lo < n

(***************************************************************************)
(* Text codecs.                                                            *)
(***************************************************************************)
IsContinuation(b) == b >= 128 /\ b < 192

\* One step of the UTF-8 decoder at 1-based index i of bytes b: the number
\* of bytes consumed and the code point produced (<<>> when the bytes are
\* an error, which errors='ignore' drops).
Utf8Step(b, i) ==
    LET n   == Len(b) - i + 1
        ch  == b[i]
        ch2 == b[i + 1]
        ch3 == b[i + 2]
        ch4 == b[i + 3]
    IN  IF ch < 128 THEN [used |-> 1, out |-> <<ch>>]
        ELSE IF ch < 194 \/ ch > 244 THEN [used |-> 1, out |-> <<>>]
        ELSE IF ch < 224 THEN
            IF n < 2 THEN [used |-> n, out |-> <<>>]
            ELSE IF ~IsContinuation(ch2) THEN [used |-> 1, out |-> <<>>]
            ELSE [used |-> 2, out |-> << (ch - 192) * 64 + (ch2 - 128) >>]
        ELSE IF ch < 240 THEN
            IF n < 2 THEN [used |-> n, out |-> <<>>]
            ELSE IF ~IsContinuation(ch2)
                    \/ (IF ch2 < 160 THEN ch = 224 ELSE ch = 237)
                 THEN [used |-> 1, out |-> <<>>]
            ELSE IF n < 3 THEN [used |-> n, out |-> <<>>]
            ELSE IF ~IsContinuation(ch3) THEN [used |-> 2, out |-> <<>>]
            ELSE [used |-> 3,
                  out |-> << (ch - 224) * 4096 + (ch2 - 128) * 64 + (ch3 - 128) >>]
        ELSE
            IF n < 2 THEN [used |-> n, out |-> <<>>]
            ELSE IF ~IsContinuation(ch2)
                    \/ (IF ch2 < 144 THEN ch = 240 ELSE ch = 244)
                 THEN [used |-> 1, out |-> <<>>]
            ELSE IF n < 3 THEN [used |-> n, out |-> <<>>]
            ELSE IF ~IsContinuation(ch3) THEN [used |-> 2, out |-> <<>>]
            ELSE IF n < 4 THEN [used |-> n, out |-> <<>>]
            ELSE IF ~IsContinuation(ch4) THEN [used |-> 3, out |-> <<>>]
            ELSE [used |-> 4,
                  out |-> << (ch - 240) * 262144 + (ch2 - 128) * 4096
                             + (ch3 - 128) * 64 + (ch4 - 128) >>]

RECURSIVE Utf8DecodeFrom(_, _)
Utf8DecodeFrom(b, i) ==
    IF i > Len(b) THEN <<>>
    ELSE LET st == Utf8Step(b, i) IN st.out \o Utf8DecodeFrom(b, i + st.used)

\* bytes.decode('utf-8', errors='ignore')
Utf8Decode(b) == Utf8DecodeFrom(b, 1)

IsSurrogate(u) == u >= 55296 /\ u < 57344
IsHighSurrogate(u) == u >= 55296 /\ u < 56320
IsLowSurrogate(u) == u >= 56320 /\ u < 57344

\* One step of the UTF-16-LE decoder at 1-based index i of bytes b.
Utf16Step(b, i) ==
    LET n   == Len(b) - i + 1
        u   == 256 * b[i + 1] + b[i]
        u2  == 256 * b[i + 3] + b[i + 2]
    IN  IF n < 2 THEN [used |-> n, out |-> <<>>]
        ELSE IF ~IsSurrogate(u) THEN [used |-> 2, out |-> <<u>>]
        ELSE IF ~IsHighSurrogate(u) THEN [used |-> 2, out |-> <<>>]
        ELSE IF n < 4 THEN [used |-> n, out |-> <<>>]
        ELSE IF ~IsLowSurrogate(u2) THEN [used |-> 2, out |-> <<>>]
        ELSE [used |-> 4, out |-> << 65536 + (u - 55296) * 1024 + (u2 - 56320) >>]

RECURSIVE Utf16DecodeFrom(_, _)
Utf16DecodeFrom(b, i) ==
    IF i > Len(b) THEN <<>>
    ELSE LET st == Utf16Step(b, i) IN st.out \o Utf16DecodeFrom(b, i + st.used)

\* bytes.decode('utf-16-le', errors='ignore')
Utf16Decode(b) == Utf16DecodeFrom(b, 1)

\* str.rstrip('\x00')
RECURSIVE RStripNul(_)
RStripNul(s) ==
    IF s # <<>> /\ s[Len(s)] = 0 THEN RStripNul(SubSeq(s, 1, Len(s) - 1)) ELSE s

\* The UTF-8 encoding of one code point (surrogates, which str.encode
\* rejects, are not among the strings of the model).
Utf8EncodeChar(c) ==
    IF c < 128 THEN <<c>>
    ELSE IF c < 2048 THEN << 192 + (c \div 64), 128 + (c % 64) >>
    ELSE IF c < 65536
         THEN << 224 + (c \div 4096), 128 + ((c \div 64) % 64), 128 + (c % 64) >>
    ELSE << 240 + (c \div 262144), 128 + ((c \div 4096) % 64),
            128 + ((c \div 64) % 64), 128 + (c % 64) >>

\* str.encode('utf-8')
RECURSIVE Utf8Encode(_)
Utf8Encode(s) ==
    IF s = <<>> THEN <<>> ELSE Utf8EncodeChar(Head(s)) \o Utf8Encode(Tail(s))

\* str.lower(), one code point at a time, for the Latin-1 range the strings
\* of the model are drawn from.
LowerChar(c) ==
    IF (c >= 65 /\ c <= 90) \/ (c >= 192 /\ c <= 222 /\ c # 215) THEN c + 32 ELSE c

Lower(s) == [i \in 1..Len(s) |-> LowerChar(s[i])]

RECURSIVE BitXor(_, _)
BitXor(a, b) ==
    IF a = 0 THEN b
    ELSE IF b = 0 THEN a
    ELSE 2 * BitXor(a \div 2, b \div 2) + (((a % 2) + (b % 2)) % 2)

\* ((hash_val ^ ord(c)) * 0x01000193) & 0xFFFFFFFF on a uint32 in limbs:
\* 0x01000193 = 2^24 + 403.
HashStep(h, c) ==
    LET xhi == BitXor(h.hi, c \div 65536)
        xlo == BitXor(h.lo, c % 65536)
        plo == xlo * 403
    IN  [hi |-> (xhi * 403 + (plo \div 65536) + (xlo % 256) * 256) % 65536,
         lo |-> plo % 65536]

RECURSIVE HashFrom(_, _)
HashFrom(h, s) ==
    IF s = <<>> THEN h ELSE HashFrom(HashStep(h, Head(s)), Tail(s))

\* Variant: the name is hashed as written, without lower()
NameHash_NoFold(name) == HashFrom([hi |-> 0, lo |-> 0], name)

\* hash_val of add_name
NameHash(name) == HashFrom([hi |-> 0, lo |-> 0], Lower(name))

\* Variant: the text is written without its terminator
NameEntry_NoTerminator(name) ==
    PackUint32([hi |-> 0, lo |-> Len(Utf8Encode(name))]) \o Utf8Encode(name)
        \o PackUint32(NameHash(name))

\* The entry add_name builds for a name
NameEntry(name) ==
    LET name_bytes == Utf8Encode(name) \o <<0>>
    IN  PackUint32([hi |-> 0, lo |-> Len(name_bytes)]) \o name_bytes
            \o PackUint32(NameHash(name))

(***************************************************************************)
(* Decimal text of an integer, as the f-string f"idx_{idx}" formats it.    *)
(* The magnitude is held in four 16-bit limbs, most significant first.     *)
(***************************************************************************)
Int32ToInt64(v) ==
    [hi |-> IF v < 0 THEN -1 ELSE 0, lo |-> UnpackUint32(PackInt32(v))]

\* The unsigned 64-bit pattern of an int64, as four 16-bit limbs
Limbs64(v) ==
    LET h == PackInt32(v.hi)
    IN  << 256 * h[4] + h[3], 256 * h[2] + h[1], v.lo.hi, v.lo.lo >>

\* Two's complement negation of a four-limb pattern
NegateLimbs(l) ==
    LET n4 == (65535 - l[4]) + 1
        n3 == (65535 - l[3]) + (n4 \div 65536)
        n2 == (65535 - l[2]) + (n3 \div 65536)
        n1 == (65535 - l[1]) + (n2 \div 65536)
    IN  << n1 % 65536, n2 % 65536, n3 % 65536, n4 % 65536 >>

\* Quotient (four limbs) and remainder of a four-limb number divided by 10
DivTen(l) ==
    LET c1 == l[1]
        c2 == (c1 % 10) * 65536 + l[2]
        c3 == (c2 % 10) * 65536 + l[3]
        c4 == (c3 % 10) * 65536 + l[4]
    IN  [q |-> << c1 \div 10, c2 \div 10, c3 \div 10, c4 \div 10 >>, r |-> c4 % 10]

RECURSIVE DigitsOf(_)
DigitsOf(l) ==
    LET d == DivTen(l)
    IN  IF d.q = <<0, 0, 0, 0>> THEN << 48 + d.r >>
        ELSE DigitsOf(d.q) \o << 48 + d.r >>

\* str(idx) for an int64 in limbs
Decimal(v) ==
    IF v.hi < 0 THEN <<45>> \o DigitsOf(NegateLimbs(Limbs64(v)))
    ELSE DigitsOf(Limbs64(v))

\* f"idx_{idx}"
Placeholder(v) == <<105, 100, 120, 95>> \o Decimal(v)

\* self.names[idx] if 0 <= idx < len(self.names) else f"idx_{idx}"
ResolveName(names, idx) ==
    IF Int64InRange(idx, Len(names)) THEN names[idx.lo.lo + 1] ELSE Placeholder(idx)

(***************************************************************************)
(* _parse_names: the loop over range(name_count) from position pos, with   *)
(* i entries done.  The result carries the names, the final position       *)
(* (name_table_end) and whether struct.error was raised.                   *)
(***************************************************************************)
\* Variant: 16-bit text is taken to be as wide as 8-bit text
TextWidth_Narrow(is_utf16, str_len) == str_len

\* The number of bytes of text an entry holds: str_len * 2 or str_len
TextWidth(is_utf16, str_len) == IF is_utf16 THEN str_len * 2 ELSE str_len

RECURSIVE ParseNamesLoop(_, _, _, _, _)
ParseNamesLoop(data, name_count, i, pos, names) ==
    IF i >= name_count \/ pos >= Len(data)
    THEN [err |-> FALSE, names |-> names, name_table_end |-> pos]
    ELSE IF ~CanRead(data, pos, 4)
    THEN [err |-> TRUE, names |-> names, name_table_end |-> pos]
    ELSE LET stored   == _read_int32(data, pos)
             is_utf16 == stored < 0
         IN  IF stored > NAME_SANITY_LIMIT \/ stored < -NAME_SANITY_LIMIT
             THEN [err |-> FALSE, names |-> names, name_table_end |-> pos + 4]
             ELSE LET str_len == IF is_utf16 THEN -stored ELSE stored
                      width   == TextWidth(is_utf16, str_len)
                      raw     == Slice(data, pos + 4, pos + 4 + width)
                      name    == IF is_utf16 THEN RStripNul(Utf16Decode(raw))
                                 ELSE RStripNul(Utf8Decode(raw))
                  IN  ParseNamesLoop(data, name_count, i + 1,
                                     pos + 4 + width + 4, Append(names, name))

_parse_names(data, name_offset, name_count) ==
    ParseNamesLoop(data, name_count, 0, name_offset, <<>>)

(***************************************************************************)
(* _parse_imports                                                          *)
(***************************************************************************)
ImportAt(data, pos, names) ==
    [class_package_idx |-> _read_int64(data, pos),
     class_name_idx    |-> _read_int64(data, pos + 8),
     outer_index       |-> _read_int32(data, pos + 16),
     object_name_idx   |-> _read_int32(data, pos + 20),
     offset            |-> pos,
     class_package     |-> ResolveName(names, _read_int64(data, pos)),
     class_name        |-> ResolveName(names, _read_int64(data, pos + 8)),
     object_name       |-> ResolveName(names, Int32ToInt64(_read_int32(data, pos + 20)))]

RECURSIVE ParseImportsLoop(_, _, _, _, _, _)
ParseImportsLoop(data, import_count, i, pos, names, imports) ==
    IF i >= import_count \/ pos + IMPORT_ENTRY_SIZE > Len(data)
    THEN [err |-> FALSE, imports |-> imports, import_table_end |-> pos]
    ELSE IF ~(/\ CanRead(data, pos, 8) /\ CanRead(data, pos + 8, 8)
              /\ CanRead(data, pos + 16, 4) /\ CanRead(data, pos + 20, 4))
    THEN [err |-> TRUE, imports |-> imports, import_table_end |-> pos]
    ELSE ParseImportsLoop(data, import_count, i + 1, pos + IMPORT_ENTRY_SIZE, names,
                          Append(imports, ImportAt(data, pos, names)))

_parse_imports(data, import_offset, import_count, names) ==
    ParseImportsLoop(data, import_count, 0, import_offset, names, <<>>)

(***************************************************************************)
(* _parse_exports                                                          *)
(***************************************************************************)
ExportAt(data, pos, names) ==
    [class_index     |-> _read_int32(data, pos),
     super_index     |-> _read_int32(data, pos + 4),
     template_index  |-> _read_int32(data, pos + 8),
     outer_index     |-> _read_int32(data, pos + 12),
     object_name_idx |-> _read_int32(data, pos + 16),
     object_flags    |-> _read_uint32(data, pos + 20),
     serial_size     |-> _read_int64(data, pos + 24),
     serial_offset   |-> _read_int64(data, pos + 32),
     offset          |-> pos,
     object_name     |-> ResolveName(names, Int32ToInt64(_read_int32(data, pos + 16)))]

RECURSIVE ParseExportsLoop(_, _, _, _, _, _)
ParseExportsLoop(data, limit, i, pos, names, exports) ==
    IF i >= limit \/ pos + EXPORT_ENTRY_SIZE > Len(data)
    THEN [err |-> FALSE, exports |-> exports]
    ELSE IF ~(\A k \in {0, 4, 8, 12, 16, 20} : CanRead(data, pos + k, 4))
            \/ ~(CanRead(data, pos + 24, 8) /\ CanRead(data, pos + 32, 8))
    THEN [err |-> TRUE, exports |-> exports]
    ELSE ParseExportsLoop(data, limit, i + 1, pos + EXPORT_ENTRY_SIZE, names,
                          Append(exports, ExportAt(data, pos, names)))

_parse_exports(data, export_offset, export_count, names) ==
    ParseExportsLoop(data, Min(export_count, EXPORT_SCAN_LIMIT), 0, export_offset,
                     names, <<>>)

(***************************************************************************)
(* _parse: the whole load of a buffer.  outcome is "ok", "InvalidMagic"    *)
(* (the ValueError of the magic check) or "StructError" (struct.error      *)
(* raised by an unpack of a short slice).  On an exception no parser       *)
(* object exists; the fields of the result are then the empty ones.        *)
(***************************************************************************)
NoFields ==
    [names |-> <<>>, imports |-> <<>>, exports |-> <<>>,
     name_count |-> 0, name_offset |-> 0, export_count |-> 0, export_offset |-> 0,
     import_count |-> 0, import_offset |-> 0,
     name_table_end |-> 0, import_table_end |-> 0]

\* Variant: the exception is swallowed and an empty parser is returned
Rejected_Swallowed(kind) == [outcome |-> "ok", fields |-> NoFields]

\* The load ended by an exception of the given kind
Rejected(kind) == [outcome |-> kind, fields |-> NoFields]

\* Variant: only the low half of the magic is compared
MagicMismatch_LowHalf(data) == _read_uint32(data, 0).lo # MAGIC.lo

\* magic != 0x9E2A83C1, on a buffer of at least four bytes
MagicMismatch(data) == _read_uint32(data, 0) # MAGIC

\* The six header fields _parse reads
HeaderFields(data) ==
    [name_count    |-> _read_int32(data, NAME_COUNT_POS),
     name_offset   |-> _read_int32(data, NAME_OFFSET_POS),
     export_count  |-> _read_int32(data, EXPORT_COUNT_POS),
     export_offset |-> _read_int32(data, EXPORT_OFFSET_POS),
     import_count  |-> _read_int32(data, IMPORT_COUNT_POS),
     import_offset |-> _read_int32(data, IMPORT_OFFSET_POS)]

\* The end of _parse: after the three tables (pn, pi, pe) were parsed
ParsedExports(h, pn, pi, pe) ==
    IF pe.err THEN Rejected("StructError")
    ELSE [outcome |-> "ok",
          fields  |-> [names |-> pn.names, imports |-> pi.imports,
                       exports |-> pe.exports,
                       name_count |-> h.name_count, name_offset |-> h.name_offset,
                       export_count |-> h.export_count,
                       export_offset |-> h.export_offset,
                       import_count |-> h.import_count,
                       import_offset |-> h.import_offset,
                       name_table_end |-> pn.name_table_end,
                       import_table_end |-> pi.import_table_end]]

\* self._parse_exports(), after the names and imports were parsed
ParsedImports(data, h, pn, pi) ==
    IF pi.err THEN Rejected("StructError")
    ELSE ParsedExports(h, pn, pi,
                       _parse_exports(data, h.export_offset, h.export_count, pn.names))

\* self._parse_imports(), after the names were parsed
ParsedNames(data, h, pn) ==
    IF pn.err THEN Rejected("StructError")
    ELSE ParsedImports(data, h, pn,
                       _parse_imports(data, h.import_offset, h.import_count, pn.names))

\* self._parse_names(), after the header fields were read
ParsedHeader(data, h) ==
    ParsedNames(data, h, _parse_names(data, h.name_offset, h.name_count))

_parse(data) ==
    IF ~CanRead(data, 0, 4) THEN Rejected("StructError")
    ELSE IF MagicMismatch(data) THEN Rejected("InvalidMagic")
    ELSE IF \E k \in {NAME_COUNT_POS, NAME_OFFSET_POS, EXPORT_COUNT_POS,
                      EXPORT_OFFSET_POS, IMPORT_COUNT_POS, IMPORT_OFFSET_POS} :
                ~CanRead(data, k, 4)
    THEN Rejected("StructError")
    ELSE ParsedHeader(data, HeaderFields(data))

\* uexp_data: None unless a companion file was given and exists
NoUexp == [present |-> FALSE, bytes |-> <<>>]

\* No parser object
NoObject == NoFields @@ [uasset_data |-> <<>>, uexp_data |-> NoUexp]

\* The parser object __init__ leaves when _parse returned p
Constructed(p, uasset_bytes, uexp) ==
    [outcome |-> p.outcome,
     obj |-> IF p.outcome = "ok"
             THEN p.fields @@ [uasset_data |-> uasset_bytes, uexp_data |-> uexp]
             ELSE NoObject]

\* UAssetParser.__init__: the parser object for the files, or the rejection
NewParser(uasset_bytes, uexp) == Constructed(_parse(uasset_bytes), uasset_bytes, uexp)

(***************************************************************************)
(* find_name_index, add_name, _shift_offsets_after, add_import, save       *)
(***************************************************************************)
RECURSIVE IndexFrom(_, _, _)
IndexFrom(names, name, i) ==
    IF i > Len(names) THEN -1
    ELSE IF names[i] = name THEN i - 1
    ELSE IndexFrom(names, name, i + 1)

\* Variant: the search compares the lowercase forms
find_name_index_FoldCase(self, name) ==
    IndexFrom([i \in 1..Len(self.names) |-> Lower(self.names[i])], Lower(name), 1)

\* Variant: the search misses the first entry
find_name_index_SkipFirst(self, name) == IndexFrom(self.names, name, 2)

\* self.names.index(name), or -1 on ValueError
find_name_index(self, name) == IndexFrom(self.names, name, 1)

ShiftExportOffset(self, position, amount) ==
    IF self.export_offset > position
    THEN [self EXCEPT !.export_offset = @ + amount,
                      !.uasset_data = _write_int32(@, EXPORT_OFFSET_POS,
                                                   self.export_offset + amount)]
    ELSE self

\* Variant: the import offset is shifted in memory only
ShiftImportOffset_MemoryOnly(self, position, amount) ==
    IF self.import_offset > position
    THEN [self EXCEPT !.import_offset = @ + amount]
    ELSE self

ShiftImportOffset(self, position, amount) ==
    IF self.import_offset > position
    THEN [self EXCEPT !.import_offset = @ + amount,
                      !.uasset_data = _write_int32(@, IMPORT_OFFSET_POS,
                                                   self.import_offset + amount)]
    ELSE self

_shift_offsets_after(self, position, amount) ==
    ShiftImportOffset(ShiftExportOffset(self, position, amount), position, amount)

\* Variant: the name is put at the head of the in-memory sequence
InsertEntry_Prepend(self, name, entry, insert_pos) ==
    [self |-> _shift_offsets_after(
                  [self EXCEPT !.uasset_data =
                                   _write_int32(Splice(@, insert_pos, entry),
                                                NAME_COUNT_POS, self.name_count + 1),
                               !.names = <<name>> \o @,
                               !.name_count = @ + 1,
                               !.name_table_end = @ + Len(entry)],
                  insert_pos, Len(entry)),
     ret  |-> 0]

\* Variant: the name count is not incremented
InsertEntry_NoCount(self, name, entry, insert_pos) ==
    [self |-> _shift_offsets_after(
                  [self EXCEPT !.uasset_data =
                                   _write_int32(Splice(@, insert_pos, entry),
                                                NAME_COUNT_POS, self.name_count),
                               !.names = Append(@, name),
                               !.name_table_end = @ + Len(entry)],
                  insert_pos, Len(entry)),
     ret  |-> Len(Append(self.names, name)) - 1]

\* add_name from the splice on: entry is spliced at insert_pos, the name
\* appended, name_count incremented and written to the header,
\* name_table_end advanced, and the offsets after insert_pos shifted
InsertEntry(self, name, entry, insert_pos) ==
    [self |-> _shift_offsets_after(
                  [self EXCEPT !.uasset_data =
                                   _write_int32(Splice(@, insert_pos, entry),
                                                NAME_COUNT_POS, self.name_count + 1),
                               !.names = Append(@, name),
                               !.name_count = @ + 1,
                               !.name_table_end = @ + Len(entry)],
                  insert_pos, Len(entry)),
     ret  |-> Len(Append(self.names, name)) - 1]

\* The part of add_name that runs when the name is not yet in the table
InsertName(self, name) == InsertEntry(self, name, NameEntry(name), self.name_table_end)

\* Variant: the name is inserted whether or not it is in the table
add_name_NoDedupe(self, name) == InsertName(self, name)

add_name(self, name) ==
    IF find_name_index(self, name) >= 0
    THEN [self |-> self, ret |-> find_name_index(self, name)]
    ELSE InsertName(self, name)

\* The 28 bytes add_import packs
ImportEntry(cp_idx, cn_idx, outer_index, on_idx) ==
    PackInt64(cp_idx) \o PackInt64(cn_idx) \o PackInt32(outer_index)
        \o PackInt32(on_idx) \o PackInt32(0)

\* The position at which add_import splices its entry
ImportInsertPos(self) == self.import_table_end

\* Variant: a zero-based index is negated
ImportReturn_ZeroBased(self) == -(Len(self.imports) - 1)

\* The value add_import returns, from the parser after the insertion
ImportReturn(self) == -(Len(self.imports))

\* Variant: the companion payload is dropped
ImportResult_DropsPayload(self) ==
    [self |-> [self EXCEPT !.uexp_data = NoUexp], ret |-> ImportReturn(self)]

\* The parser add_import leaves, with the value it returns
ImportResult(self) == [self |-> self, ret |-> ImportReturn(self)]

\* add_import from the splice on: the entry is spliced at insert_pos,
\* import_count incremented and written to the header, the import tracked
\* and import_table_end advanced.  idx holds the three name indices.
InsertImport(self, idx, class_package, class_name, object_name, outer_index, insert_pos) ==
    ImportResult(
        [self EXCEPT
            !.uasset_data =
                _write_int32(
                    Splice(@, insert_pos,
                           ImportEntry(idx.cp_idx, idx.cn_idx, outer_index, idx.on_idx)),
                    IMPORT_COUNT_POS, self.import_count + 1),
            !.import_count = @ + 1,
            !.imports = Append(@, [class_package_idx |-> Int32ToInt64(idx.cp_idx),
                                   class_name_idx    |-> Int32ToInt64(idx.cn_idx),
                                   outer_index       |-> outer_index,
                                   object_name_idx   |-> idx.on_idx,
                                   offset            |-> insert_pos,
                                   class_package     |-> class_package,
                                   class_name        |-> class_name,
                                   object_name       |-> object_name]),
            !.import_table_end =
                @ + Len(ImportEntry(idx.cp_idx, idx.cn_idx, outer_index, idx.on_idx))])

\* Variant: the object name index is taken from the class package
NamedObject_PackageIdx(a3, cp_idx, cn_idx, class_package, class_name, object_name, outer_index) ==
    InsertImport(a3.self, [cp_idx |-> cp_idx, cn_idx |-> cn_idx, on_idx |-> cp_idx],
                 class_package, class_name, object_name, outer_index,
                 ImportInsertPos(a3.self))

\* on_idx = self.add_name(object_name), then the insertion
NamedObject(a3, cp_idx, cn_idx, class_package, class_name, object_name, outer_index) ==
    InsertImport(a3.self, [cp_idx |-> cp_idx, cn_idx |-> cn_idx, on_idx |-> a3.ret],
                 class_package, class_name, object_name, outer_index,
                 ImportInsertPos(a3.self))

\* cn_idx = self.add_name(class_name), then the rest
NamedClass(a2, cp_idx, class_package, class_name, object_name, outer_index) ==
    NamedObject(add_name(a2.self, object_name), cp_idx, a2.ret,
                class_package, class_name, object_name, outer_index)

\* cp_idx = self.add_name(class_package), then the rest
NamedPackage(a1, class_package, class_name, object_name, outer_index) ==
    NamedClass(add_name(a1.self, class_name), a1.ret,
               class_package, class_name, object_name, outer_index)

add_import(self, class_package, class_name, object_name, outer_index) ==
    NamedPackage(add_name(self, class_package),
                 class_package, class_name, object_name, outer_index)

\* Variant: the name count is rewritten from the parsed names on save
SavedUasset_Recount(self) ==
    _write_int32(self.uasset_data, NAME_COUNT_POS, Len(self.names))

\* save: the bytes written to output_uasset, and to output_uexp when
\* self.uexp_data is truthy (present and not empty)
SavedUasset(self) == self.uasset_data

SavedUexp(self) ==
    IF self.uexp_data.present /\ self.uexp_data.bytes # <<>>
    THEN self.uexp_data ELSE NoUexp

(***************************************************************************)
(* Tools/py/inventory_sort_v2.py: patch_uasset_names(uasset_data,          *)
(* names_to_add).  The result carries the patched bytes, the name table    *)
(* end the function found, the new indices, and whether struct.error was   *)
(* raised.                                                                 *)
(***************************************************************************)
\* The header fields patch_uasset_names treats as offsets, in its order
PATCH_OFFSETS == << EXPORT_COUNT_POS, EXPORT_OFFSET_POS, IMPORT_COUNT_POS,
                    IMPORT_OFFSET_POS, DEPENDS_OFFSET_POS >>

\* The loop that finds the end of the name table, with i entries skipped
RECURSIVE PatchEndLoop(_, _, _, _)
PatchEndLoop(data, name_count, i, pos) ==
    IF i >= name_count \/ pos >= Len(data) - 4 THEN [err |-> FALSE, pos |-> pos]
    ELSE IF ~CanRead(data, pos, 4) THEN [err |-> TRUE, pos |-> pos]
    ELSE IF _read_int32(data, pos) < 0
         THEN PatchEndLoop(data, name_count, i + 1,
                           pos + 4 + (-(_read_int32(data, pos))) * 2 + 4)
    ELSE PatchEndLoop(data, name_count, i + 1, pos + 4 + _read_int32(data, pos) + 4)

\* new_data: the entries of the names to add, in order
RECURSIVE NewEntries(_)
NewEntries(names_to_add) ==
    IF names_to_add = <<>> THEN <<>>
    ELSE NameEntry(Head(names_to_add)) \o NewEntries(Tail(names_to_add))

\* new_indices: each name with name_count as it was when the name was last
\* met in the list
NewIndices(names_to_add, name_count) ==
    [n \in {names_to_add[k] : k \in 1..Len(names_to_add)} |->
        name_count - 1
            + CHOOSE k \in 1..Len(names_to_add) :
                  /\ names_to_add[k] = n
                  /\ \A j \in (k + 1)..Len(names_to_add) : names_to_add[j] # n]

\* One pass of the loop over offset_to_update
ShiftField(data, offset, name_table_end, shift) ==
    IF offset + 4 <= Len(data) /\ _read_int32(data, offset) > name_table_end
    THEN _write_int32(data, offset, _read_int32(data, offset) + shift)
    ELSE data

RECURSIVE ShiftFields(_, _, _, _)
ShiftFields(data, offsets, name_table_end, shift) ==
    IF offsets = <<>> THEN data
    ELSE ShiftFields(ShiftField(data, Head(offsets), name_table_end, shift),
                     Tail(offsets), name_table_end, shift)

NoPatch == [err |-> TRUE, data |-> <<>>, name_table_end |-> 0, new_indices |-> <<>>]

\* patch_uasset_names from the insertion on, the end of the name table found
PatchedAt(data, names_to_add, name_count, end) ==
    IF end.err THEN NoPatch
    ELSE [err |-> FALSE,
          data |-> ShiftFields(
                       Overwrite(Splice(data, end.pos, NewEntries(names_to_add)),
                                 NAME_COUNT_POS,
                                 PackInt32(name_count + Len(names_to_add))),
                       PATCH_OFFSETS, end.pos, Len(NewEntries(names_to_add))),
          name_table_end |-> end.pos,
          new_indices |-> NewIndices(names_to_add, name_count)]

patch_uasset_names(uasset_data, names_to_add) ==
    IF ~CanRead(uasset_data, NAME_COUNT_POS, 4) \/ ~CanRead(uasset_data, NAME_OFFSET_POS, 4)
    THEN NoPatch
    ELSE PatchedAt(uasset_data, names_to_add, _read_int32(uasset_data, NAME_COUNT_POS),
                   PatchEndLoop(uasset_data, _read_int32(uasset_data, NAME_COUNT_POS), 0,
                                _read_int32(uasset_data, NAME_OFFSET_POS)))

(***************************************************************************)
(* Tools/py/inventory_sort_v2.py: read_name_table (the names it returns    *)
(* for the bytes of the file).                                             *)
(***************************************************************************)
READ_NAME_LIMIT == 5000
READ_LENGTH_LIMIT == 1000

RECURSIVE ReadNamesLoop(_, _, _, _, _)
ReadNamesLoop(data, limit, i, pos, names) ==
    IF i >= limit \/ pos >= Len(data) - 4 THEN [err |-> FALSE, names |-> names]
    ELSE IF ~CanRead(data, pos, 4) THEN [err |-> TRUE, names |-> names]
    ELSE IF _read_int32(data, pos) < 0
         THEN ReadNamesLoop(data, limit, i + 1,
                            pos + 4 + (-(_read_int32(data, pos))) * 2 + 4,
                            Append(names,
                                   RStripNul(Utf16Decode(
                                       Slice(data, pos + 4,
                                             pos + 4 + (-(_read_int32(data, pos))) * 2)))))
    ELSE IF 0 < _read_int32(data, pos) /\ _read_int32(data, pos) < READ_LENGTH_LIMIT
         THEN ReadNamesLoop(data, limit, i + 1, pos + 4 + _read_int32(data, pos) + 4,
                            Append(names,
                                   RStripNul(Utf8Decode(
                                       Slice(data, pos + 4,
                                             pos + 4 + _read_int32(data, pos))))))
    ELSE [err |-> FALSE, names |-> names]

read_name_table(data) ==
    IF ~CanRead(data, NAME_COUNT_POS, 4) \/ ~CanRead(data, NAME_OFFSET_POS, 4)
    THEN [err |-> TRUE, names |-> <<>>]
    ELSE ReadNamesLoop(data, Min(_read_int32(data, NAME_COUNT_POS), READ_NAME_LIMIT), 0,
                       _read_int32(data, NAME_OFFSET_POS), <<>>)

(***************************************************************************)
(* Tools/py/patch_inventory_sort.py: find_name_table.  It reads the count, *)
(* the offset and the lengths as unsigned.  The buffers of the model are   *)
(* shorter than 2^16 bytes, so an offset with a nonzero upper half is      *)
(* past the end of the buffer.                                             *)
(***************************************************************************)
FIND_MIN_SIZE == 100
FIND_NAME_LIMIT == 1000
FIND_LENGTH_LIMIT == 1000

\* min(v, limit) for a uint32 in limbs
Uint32Min(v, limit) == IF v.hi > 0 THEN limit ELSE Min(v.lo, limit)

\* str_len > 1000 or str_len == 0
FindSanityStop(str_len) ==
    str_len.hi > 0 \/ str_len.lo > FIND_LENGTH_LIMIT \/ str_len = [hi |-> 0, lo |-> 0]

\* if str_len & 0x80000000: str_len = -(str_len - 0x100000000) * 2
FindTextLen(str_len) ==
    IF str_len.hi >= 32768 THEN ((65536 - str_len.hi) * 65536 - str_len.lo) * 2
    ELSE str_len.lo

\* The rest of one pass of the loop, the text length n known
FindEntry(data, pos, n, names) ==
    [names |-> Append(names, Utf8Decode(Slice(data, pos + 4, pos + 4 + n - 1))),
     pos   |-> pos + 4 + n + 4]

RECURSIVE FindNamesLoop(_, _, _, _, _)
FindNamesLoop(data, limit, i, pos, names) ==
    IF i >= limit \/ pos >= Len(data) - 4 THEN names
    ELSE IF FindSanityStop(_read_uint32(data, pos)) THEN names
    ELSE IF pos + 4 + FindTextLen(_read_uint32(data, pos)) > Len(data) THEN names
    ELSE FindNamesLoop(data, limit, i + 1,
                       FindEntry(data, pos, FindTextLen(_read_uint32(data, pos)), names).pos,
                       FindEntry(data, pos, FindTextLen(_read_uint32(data, pos)), names).names)

find_name_table(data) ==
    IF Len(data) < FIND_MIN_SIZE THEN <<>>
    ELSE IF _read_uint32(data, 0) # MAGIC THEN <<>>
    ELSE IF _read_uint32(data, NAME_OFFSET_POS).hi > 0 THEN <<>>
    ELSE FindNamesLoop(data, Uint32Min(_read_uint32(data, NAME_COUNT_POS), FIND_NAME_LIMIT),
                       0, _read_uint32(data, NAME_OFFSET_POS).lo, <<>>)

(***************************************************************************)
(* The asset files of the model.  A file is laid out as the format lays    *)
(* it out: a 69-byte header (magic, opaque fields, the count/offset fields *)
(* at bytes 41..68), then the name table, a gap, the import table, the     *)
(* export table and the depends data; a second layout puts the export      *)
(* table before the name table.                                            *)
(***************************************************************************)
HEADER_SIZE == DEPENDS_OFFSET_POS + 4

\* The shortest buffer in which the six fields _parse reads all lie
MIN_HEADER_SIZE == IMPORT_OFFSET_POS + 4

RECURSIVE Fill(_, _)
Fill(n, b) == IF n <= 0 THEN <<>> ELSE <<b>> \o Fill(n - 1, b)

RECURSIVE Flatten(_)
Flatten(ss) == IF ss = <<>> THEN <<>> ELSE Head(ss) \o Flatten(Tail(ss))

\* A stored name entry: length field, raw text, hash
StoredName(stored, raw) == PackInt32(stored) \o raw \o <<17, 34, 51, 68>>

Name_A   == StoredName(2, <<65, 0>>)            \* "A", 8-bit
Name_b16 == StoredName(-2, <<98, 0, 0, 0>>)     \* "b", 16-bit
Name_Q   == StoredName(3, <<81, 0, 0>>)         \* "Q" with two terminators

\* An entry that declares five bytes of text and ends after two
CutName == PackInt32(5) \o <<65, 66>>

NameTables == { <<>>, <<Name_A, Name_b16>>, <<Name_Q>> }

\* A stored import entry
StoredImport(cp, cn, outer, on) ==
    PackInt64(cp) \o PackInt64(cn) \o PackInt32(outer) \o PackInt32(on) \o PackInt32(0)

ImportTables == { <<>>, <<StoredImport(0, 1, 0, 0)>> }

\* A stored export entry
StoredExport ==
    PackInt32(-1) \o PackInt32(0) \o PackInt32(0) \o PackInt32(0) \o PackInt32(0)
        \o <<1, 0, 0, 0>> \o PackInt64(2) \o PackInt64(0)
        \o Fill(EXPORT_ENTRY_SIZE - 40, 204)

Gaps == {0, 2}

\* The file of a layout: names and imports are sequences of stored entries,
\* extraNames / extraImports are added to the counts the header declares,
\* exports is 0 or 1, exportsFirst puts the export table before the names.
BuildAsset(magic, names, extraNames, gap, imports, extraImports, exports, exportsFirst, tail) ==
    LET nameBytes   == Flatten(names)
        importBytes == Flatten(imports)
        exportBytes == IF exports = 1 THEN StoredExport ELSE <<>>
        lead        == IF exportsFirst THEN Len(exportBytes) ELSE 0
        name_offset   == HEADER_SIZE + lead
        import_offset == name_offset + Len(nameBytes) + gap
        export_offset == IF exportsFirst THEN HEADER_SIZE
                         ELSE import_offset + Len(importBytes)
        depends_offset == IF exportsFirst THEN import_offset + Len(importBytes)
                          ELSE export_offset + Len(exportBytes)
        header == magic \o Fill(NAME_COUNT_POS - 4, 170)
                    \o PackInt32(Len(names) + extraNames) \o PackInt32(name_offset)
                    \o PackInt32(exports) \o PackInt32(export_offset)
                    \o PackInt32(Len(imports) + extraImports) \o PackInt32(import_offset)
                    \o PackInt32(depends_offset)
    IN  IF exportsFirst
        THEN header \o exportBytes \o nameBytes \o Fill(gap, 238) \o importBytes \o tail
        ELSE header \o nameBytes \o Fill(gap, 238) \o importBytes \o exportBytes \o tail

GoodMagic == PackUint32(MAGIC)
BadMagic  == <<193, 131, 42, 157>>
Tail2     == <<85, 85>>

\* Names the import entry of ImportTables refers to must exist for it to
\* resolve; it is also kept over the other name tables, where its indices
\* resolve to placeholders.
WellFormedAssets ==
    { BuildAsset(GoodMagic, n, 0, g, i, 0, e, FALSE, Tail2) :
        n \in NameTables, g \in Gaps, i \in ImportTables, e \in {0, 1} }
    \cup { BuildAsset(GoodMagic, <<Name_A, Name_b16>>, 0, g, <<StoredImport(0, 1, 0, 0)>>,
                      0, 1, TRUE, Tail2) : g \in Gaps }
    \cup { BuildAsset(GoodMagic, <<Name_b16, Name_A>>, 0, 0, <<>>, 0, 0, FALSE, Tail2),
           BuildAsset(GoodMagic, <<Name_b16, Name_A, Name_A>>, 0, 0, <<>>, 0, 0, FALSE, Tail2) }

SampleAsset == BuildAsset(GoodMagic, <<Name_A>>, 0, 0, <<>>, 0, 0, FALSE, Tail2)

\* Files whose header declares more entries than the buffer holds, or a
\* length field above the sanity limit
TruncatedAssets ==
    { BuildAsset(GoodMagic, n, 0, g, i, 1, 0, FALSE, Tail2) :
        n \in {<<>>, <<Name_A, Name_b16>>}, g \in Gaps, i \in ImportTables }
    \cup { BuildAsset(GoodMagic, <<Name_A>>, 1, 0, <<>>, 0, 0, FALSE, <<>>),
           BuildAsset(GoodMagic, <<Name_A>>, 1, 0, <<>>, 0, 0, FALSE, Tail2),
           BuildAsset(GoodMagic, <<Name_A, StoredName(NAME_SANITY_LIMIT + 1, <<>>)>>,
                      0, 0, <<>>, 0, 0, FALSE, Tail2),
           BuildAsset(GoodMagic, <<CutName>>, 0, 0, <<>>, 0, 0, FALSE, <<>>),
           SubSeq(SampleAsset, 1, MIN_HEADER_SIZE) }

\* Files that are too short, or do not start with the magic
BrokenAssets ==
    { SubSeq(SampleAsset, 1, k) : k \in {0, 1, 3, 4, 5, 44, 45, 64} }
    \cup { BadMagic \o SubSeq(SampleAsset, 5, Len(SampleAsset)), BadMagic,
           SubSeq(BadMagic, 1, 3), BadMagic \o Fill(40, 170) }

Assets == WellFormedAssets \cup TruncatedAssets \cup BrokenAssets

\* The companion payload goes with the export table: none without exports
PayloadOf(asset) ==
    IF Len(asset) < HEADER_SIZE THEN NoUexp
    ELSE IF _read_int32(asset, EXPORT_COUNT_POS) = 0
         THEN (IF _read_int32(asset, NAME_COUNT_POS) = 0
               THEN [present |-> TRUE, bytes |-> <<>>] ELSE NoUexp)
         ELSE [present |-> TRUE, bytes |-> <<7, 9>>]

(***************************************************************************)
(* Arguments of the calls.                                                 *)
(***************************************************************************)
\* "A", "a", "Z\0", "e-acute"
NameArgs == { <<65>>, <<97>>, <<90, 0>>, <<233>> }

\* class_package, class_name, object_name: "P"; "K" or "P"; "O" or "A"
ClassPackageArgs == { <<80>> }
ClassNameArgs    == { <<75>>, <<80>> }
ObjectNameArgs   == { <<79>>, <<65>> }
OuterIndexArgs   == { 0, -1 }

(***************************************************************************)
(* The state machine: one session of patch_inventory_for_sorting, with the *)
(* calls on the parser in any order.  file / uexp_file are the input       *)
(* files, self the parser object, out_uasset / out_uexp the files save     *)
(* writes, verify the parser made from them.  log is the sequence of the   *)
(* add_name / add_import calls made, each with the value it returned, and  *)
(* pre the parser object as it was when the last of them started.          *)
(***************************************************************************)
VARIABLES file, uexp_file, phase, error, self, pre, log,
          out_uasset, out_uexp, verify, tool

vars == << file, uexp_file, phase, error, self, pre, log, out_uasset, out_uexp, verify,
           tool >>

NoCall == [op |-> "none", name |-> <<>>, class_package |-> <<>>, class_name |-> <<>>,
           object_name |-> <<>>, outer_index |-> 0, ret |-> 0]

\* No standalone tool has run
NoTool ==
    [op |-> "none", names_to_add |-> <<>>, patch |-> NoPatch,
     parsed |-> [outcome |-> "none", names |-> <<>>],
     read |-> [err |-> FALSE, names |-> <<>>], found |-> <<>>]

Init ==
    /\ file \in Assets
    /\ uexp_file = PayloadOf(file)
    /\ phase = "start"
    /\ error = "none"
    /\ self = NoObject
    /\ pre = NoObject
    /\ log = <<>>
    /\ out_uasset = <<>>
    /\ out_uexp = NoUexp
    /\ verify = [outcome |-> "none", obj |-> NoObject]
    /\ tool = NoTool

\* The session after the constructor returned or raised
Constructor(r) ==
    /\ phase' = IF r.outcome = "ok" THEN "loaded" ELSE "failed"
    /\ error' = r.outcome
    /\ self' = r.obj

\* parser = UAssetParser(inv_uasset, inv_uexp)
Load ==
    /\ phase = "start"
    /\ Constructor(NewParser(file, uexp_file))
    /\ UNCHANGED << file, uexp_file, pre, log, out_uasset, out_uexp, verify, tool >>

\* The session after a call c returned r
Returned(c, r) ==
    /\ self' = r.self
    /\ log' = Append(log, [c EXCEPT !.ret = r.ret])
    /\ pre' = self
    /\ UNCHANGED << file, uexp_file, phase, error, out_uasset, out_uexp, verify, tool >>

\* parser.add_name(name)
AddName(name) ==
    /\ phase = "loaded"
    /\ Len(log) < MaxCalls
    /\ Returned([NoCall EXCEPT !.op = "add_name", !.name = name], add_name(self, name))

\* parser.add_import(class_package, class_name, object_name, outer_index)
AddImport(class_package, class_name, object_name, outer_index) ==
    /\ phase = "loaded"
    /\ Len(log) < MaxCalls
    /\ Returned([NoCall EXCEPT !.op = "add_import",
                               !.class_package = class_package,
                               !.class_name = class_name,
                               !.object_name = object_name,
                               !.outer_index = outer_index],
                add_import(self, class_package, class_name, object_name, outer_index))

\* parser.save(out_uasset, out_uexp)
Save ==
    /\ phase = "loaded"
    /\ phase' = "saved"
    /\ out_uasset' = SavedUasset(self)
    /\ out_uexp' = SavedUexp(self)
    /\ UNCHANGED << file, uexp_file, error, self, pre, log, verify, tool >>

\* verify_parser = UAssetParser(out_uasset, out_uexp)
Verify ==
    /\ phase = "saved"
    /\ phase' = "verified"
    /\ verify' = NewParser(out_uasset, out_uexp)
    /\ UNCHANGED << file, uexp_file, error, self, pre, log, out_uasset, out_uexp, tool >>

Next ==
    \/ Load
    \/ \E name \in NameArgs : AddName(name)
    \/ \E cp \in ClassPackageArgs, cn \in ClassNameArgs, on \in ObjectNameArgs,
          outer \in OuterIndexArgs : AddImport(cp, cn, on, outer)
    \/ Save
    \/ Verify

Spec == Init /\ [][Next]_vars

(***************************************************************************)
(* The standalone tools on one file: patch_uasset_names of                 *)
(* inventory_sort_v2.py with a list of names, and the three readers of the *)
(* name table (UAssetParser, read_name_table, find_name_table) on the same *)
(* bytes.  tool holds what they returned.                                  *)
(***************************************************************************)
\* A file with more imports than its name table has bytes before its end
ManyImports == [i \in 1..80 |-> StoredImport(0, 0, 0, 0)]
ManyImportsAsset == BuildAsset(GoodMagic, <<Name_A>>, 0, 0, ManyImports, 0, 0, FALSE, Tail2)

\* A file of more than 100 bytes with 8-bit names only: "A", "NM"
PlainAsset ==
    BuildAsset(GoodMagic, <<Name_A, StoredName(3, <<78, 77, 0>>)>>, 0, 0,
               <<StoredImport(0, 1, 0, 0)>>, 0, 1, FALSE, Tail2)

ToolAssets == Assets \cup { ManyImportsAsset, PlainAsset }

\* names_to_add: none, "N", "N" and "M", "N" twice
PatchArgs == { <<>>, << <<78>> >>, << <<78>>, <<77>> >>, << <<78>>, <<78>> >> }

ToolInit ==
    /\ file \in ToolAssets
    /\ uexp_file = PayloadOf(file)
    /\ phase = "start"
    /\ error = "none"
    /\ self = NoObject
    /\ pre = NoObject
    /\ log = <<>>
    /\ out_uasset = <<>>
    /\ out_uexp = NoUexp
    /\ verify = [outcome |-> "none", obj |-> NoObject]
    /\ tool = NoTool

\* The tool session after a tool returned
ToolReturned(t) ==
    /\ tool' = t
    /\ UNCHANGED << file, uexp_file, phase, error, self, pre, log, out_uasset,
                    out_uexp, verify >>

\* new_data, indices = patch_uasset_names(data, names_to_add)
PatchNames(names_to_add) ==
    /\ tool.op = "none"
    /\ ToolReturned([NoTool EXCEPT !.op = "patch", !.names_to_add = names_to_add,
                                   !.patch = patch_uasset_names(file, names_to_add)])

\* What self._parse_names() left in self.names
NamesParsed(pn) ==
    [outcome |-> IF pn.err THEN "rejected" ELSE "ok", names |-> pn.names]

\* _parse up to and including its call of _parse_names
ParsedNameTable(data) ==
    IF ~CanRead(data, 0, 4) THEN [outcome |-> "rejected", names |-> <<>>]
    ELSE IF MagicMismatch(data) THEN [outcome |-> "rejected", names |-> <<>>]
    ELSE IF ~CanRead(data, NAME_COUNT_POS, 4) \/ ~CanRead(data, NAME_OFFSET_POS, 4)
    THEN [outcome |-> "rejected", names |-> <<>>]
    ELSE NamesParsed(_parse_names(data, _read_int32(data, NAME_OFFSET_POS),
                                  _read_int32(data, NAME_COUNT_POS)))

\* The three readers on the bytes of the file
ReadNames ==
    /\ tool.op = "none"
    /\ ToolReturned([NoTool EXCEPT !.op = "read",
                                   !.parsed = ParsedNameTable(file),
                                   !.read = read_name_table(file),
                                   !.found = find_name_table(file)])

ToolNext ==
    \/ \E names_to_add \in PatchArgs : PatchNames(names_to_add)
    \/ ReadNames

ToolSpec == ToolInit /\ [][ToolNext]_vars

(***************************************************************************)
(* Vocabulary of the properties.                                           *)
(***************************************************************************)
\* The last call made, and the one before it
Call == IF log = <<>> THEN NoCall ELSE log[Len(log)]
Prev == IF Len(log) < 2 THEN NoCall ELSE log[Len(log) - 1]

\* The last call was an add_name that inserted a new name
InsertedName == Call.op = "add_name" /\ find_name_index(pre, Call.name) < 0

\* The entry that call inserted, and where
InsertedEntry == NameEntry(Call.name)
InsertedAt == pre.name_table_end

\* The number of add_import calls made so far
NumImportCalls == Cardinality({i \in 1..Len(log) : log[i].op = "add_import"})

\* The asset was built with tables that are whole and counts that match
WellFormed == file \in WellFormedAssets

\* The (class_package, class_name, object_name, outer_index) an import resolves to
Resolved(imp) == << imp.class_package, imp.class_name, imp.object_name, imp.outer_index >>

\* The strings of a set that are not in the name table of a parser object
Missing(obj, strings) == {x \in strings : find_name_index(obj, x) < 0}

(***************************************************************************)
(* Properties.                                                             *)
(***************************************************************************)
\* The header offset fields the model tracks
TrackedOffsetFields == {EXPORT_OFFSET_POS, IMPORT_OFFSET_POS, DEPENDS_OFFSET_POS}

\* The parse of the input file
Loaded == _parse(file).fields

\* C1: after an add_name that inserts an entry of length L at p (the old
\* name_table_end), every tracked offset f becomes f + L if f > p and stays
\* f otherwise, in memory (export, import) and in the stored header
\* (export, import, depends, where the buffer holds the field).
C1_RelocationTotality ==
    InsertedName =>
        LET p == InsertedAt
            L == Len(InsertedEntry)
            Shifted(f) == IF f > p THEN f + L ELSE f
        IN  /\ self.export_offset = Shifted(pre.export_offset)
            /\ self.import_offset = Shifted(pre.import_offset)
            /\ \A k \in TrackedOffsetFields :
                   CanRead(pre.uasset_data, k, 4) =>
                       _read_int32(self.uasset_data, k)
                           = Shifted(_read_int32(pre.uasset_data, k))

\* C2: when no add_name or add_import call was made, the bytes save writes
\* are the bytes that were loaded.
C2_RoundTrip ==
    (phase \in {"saved", "verified"} /\ log = <<>>) => out_uasset = file

C2_Witness ==
    /\ phase = "saved" /\ log = <<>> /\ out_uasset = file
    /\ self.names # <<>> /\ self.imports # <<>>

\* C3: add_name of the same name twice in a row returns the same index both
\* times, and the second call leaves the whole parser object (buffer, names,
\* name_count, name_table_end, offsets) as it was.
C3_AddNameIdempotent ==
    (Call.op = "add_name" /\ Prev.op = "add_name" /\ Call.name = Prev.name)
        => (Call.ret = Prev.ret /\ self = pre)

C3_Witness ==
    /\ Call.op = "add_name" /\ Prev.op = "add_name" /\ Call.name = Prev.name
    /\ Len(log) = 2
    /\ Len(self.names) = Len(Loaded.names) + 1
    /\ Call.ret = Len(Loaded.names)

\* The last call was an add_import on a parser with every declared name
\* parsed and no imports, with three distinct strings not in the name table
C4_Case ==
    /\ Call.op = "add_import"
    /\ pre.name_count = Len(pre.names)
    /\ pre.import_count = 0 /\ pre.imports = <<>>
    /\ Cardinality(Missing(pre, {Call.class_package, Call.class_name,
                                 Call.object_name})) = 3

\* C4: on an asset with k fully parsed names and no imports, add_import of
\* three distinct new strings gives name_count = k + 3 and import_count = 1
\* (in memory and in the header), keeps the index of every old name, and
\* returns -1.
C4_EndToEnd ==
    C4_Case =>
        /\ self.name_count = pre.name_count + 3
        /\ _read_int32(self.uasset_data, NAME_COUNT_POS) = pre.name_count + 3
        /\ self.import_count = 1
        /\ _read_int32(self.uasset_data, IMPORT_COUNT_POS) = 1
        /\ \A i \in 1..Len(pre.names) :
               find_name_index(self, pre.names[i]) = find_name_index(pre, pre.names[i])
        /\ Call.ret = -1

C4_Witness ==
    /\ C4_Case /\ Len(pre.names) = 2 /\ Call.ret = -1
    /\ find_name_index(self, <<65>>) = 0

\* C5: when add_import has inserted names, it splices the import entry at
\* the old end of the import table plus the length of the inserted name
\* entries.
C5_ImportInsertionPoint ==
    (Call.op = "add_import" /\ self.name_table_end > pre.name_table_end)
        => self.imports[Len(self.imports)].offset
               = pre.import_table_end + (self.name_table_end - pre.name_table_end)

\* C6: after one add_import on a well-formed asset, the saved bytes load
\* with one more import, the old imports resolving as before and the last
\* one resolving to the arguments of the call.
C6_ImportRoundTrip ==
    (phase = "verified" /\ WellFormed /\ Len(log) = 1 /\ Call.op = "add_import")
        => /\ verify.outcome = "ok"
           /\ Len(verify.obj.imports) = Len(pre.imports) + 1
           /\ \A i \in 1..Len(pre.imports) :
                  Resolved(verify.obj.imports[i]) = Resolved(pre.imports[i])
           /\ Resolved(verify.obj.imports[Len(pre.imports) + 1])
                  = << Call.class_package, Call.class_name, Call.object_name,
                       Call.outer_index >>

\* C7: after one add_name of a new name on a well-formed asset, the saved
\* bytes load with the old names followed by the new one, which is found at
\* the index add_name returned, and with one more in name_count.
C7_NameRoundTrip ==
    (phase = "verified" /\ WellFormed /\ Len(log) = 1 /\ InsertedName)
        => /\ verify.outcome = "ok"
           /\ verify.obj.names = Append(pre.names, Call.name)
           /\ find_name_index(verify.obj, Call.name) = Call.ret
           /\ verify.obj.name_count = pre.name_count + 1

\* C8: on an asset loaded with no imports, the n-th add_import call
\* returns -n.
C8_NegativeIndex ==
    (Call.op = "add_import" /\ Loaded.import_count = 0 /\ Loaded.imports = <<>>)
        => Call.ret = -NumImportCalls

C8_Witness ==
    /\ Call.op = "add_import" /\ Loaded.import_count = 0 /\ Loaded.imports = <<>>
    /\ NumImportCalls = 2 /\ Call.ret = -2

\* C9: add_import returns minus the import count stored in the header
\* after the call.
C9_ReturnIsStoredCount ==
    Call.op = "add_import"
        => Call.ret = -(_read_int32(self.uasset_data, IMPORT_COUNT_POS))

\* The first four bytes of the file, as a little-endian number, are not
\* 0x9E2A83C1
FirstFourDiffer == Len(file) >= 4 /\ SubSeq(file, 1, 4) # <<193, 131, 42, 158>>

\* C10: the load is rejected as invalid magic exactly when the first four
\* bytes differ from 0x9E2A83C1, and a rejected load leaves no parser
\* object: no table was parsed and no call can be made.
C10_InvalidMagic ==
    phase # "start" =>
        /\ (error = "InvalidMagic") <=> FirstFourDiffer
        /\ error = "InvalidMagic" => (phase = "failed" /\ self = NoObject /\ log = <<>>)

C10_Witness ==
    /\ phase = "failed" /\ error = "InvalidMagic" /\ Len(file) > HEADER_SIZE
    /\ SubSeq(file, 1, 3) = <<193, 131, 42>>

\* C11: a buffer of fewer than 65 bytes never loads: the load fails, with
\* the invalid-magic error or with the error of a read past the end of the
\* buffer (struct.error), whether or not it starts with the magic.
C11_ShortBuffer ==
    (phase # "start" /\ Len(file) < MIN_HEADER_SIZE) =>
        /\ phase = "failed" /\ self = NoObject
        /\ error \in {"InvalidMagic", "StructError"}
        /\ (error = "InvalidMagic") <=> FirstFourDiffer

C11_Witness ==
    /\ phase = "failed" /\ error = "StructError"
    /\ Len(file) = MIN_HEADER_SIZE - 1 /\ SubSeq(file, 1, 4) = GoodMagic

\* C12: a load that succeeds holds every entry the header declares, each
\* one lying wholly inside the buffer: as many names as nameCount and as
\* many imports as importCount, the name table ending inside the buffer.
\* A file whose declared tables run past the end of the buffer is rejected.
C12_TruncatedTablesAbort ==
    (phase = "loaded" /\ log = <<>>) =>
        /\ Len(self.names) = self.name_count
        /\ Len(self.imports) = self.import_count
        /\ self.name_table_end <= Len(file)

\* The bytes of text a stored length declares, and the bytes of its entry
TextBytes(stored) == IF stored < 0 THEN 2 * (-stored) ELSE stored
EntrySpan(stored) == 4 + TextBytes(stored) + 4

\* The position after the entry that starts at p
EntryAfter(data, p) == p + EntrySpan(_read_int32(data, p))

\* The position at which entry i (from 0) of a name table starts, found by
\* walking the stored lengths
RECURSIVE EntryStart(_, _, _)
EntryStart(data, name_offset, i) ==
    IF i = 0 THEN name_offset ELSE EntryAfter(data, EntryStart(data, name_offset, i - 1))

\* The text bytes of the entry that starts at p
EntryText(data, p) == SubSeq(data, p + 4 + 1, p + 4 + TextBytes(_read_int32(data, p)))

\* The name parsed for the entry at p is the text of exactly the bytes the
\* stored length declares: n 8-bit bytes, or 2|n| bytes as |n| 16-bit
\* little-endian code units
ParsedFromExactBytes(data, p, name) ==
    /\ Len(EntryText(data, p)) = TextBytes(_read_int32(data, p))
    /\ _read_int32(data, p) > 0 => name = RStripNul(Utf8Decode(EntryText(data, p)))
    /\ _read_int32(data, p) < 0 =>
           /\ Len(Utf16Decode(EntryText(data, p))) = -(_read_int32(data, p))
           /\ name = RStripNul(Utf16Decode(EntryText(data, p)))

\* C13: on a file whose name table is whole, every name is parsed from
\* exactly the bytes its stored length declares (n bytes for n > 0, 2|n|
\* bytes as |n| 16-bit units for n < 0), each entry advances the position
\* by 4 + text bytes + 4, and name_table_end is the position so reached.
C13_TextEncoding ==
    (phase = "loaded" /\ log = <<>> /\ WellFormed) =>
        /\ Len(self.names) = self.name_count
        /\ \A i \in 1..Len(self.names) :
               ParsedFromExactBytes(file, EntryStart(file, self.name_offset, i - 1),
                                    self.names[i])
        /\ self.name_table_end = EntryStart(file, self.name_offset, Len(self.names))

\* A 16-bit entry of stored length -2 (4 bytes of text, 12 in all) followed
\* by an 8-bit entry of stored length 2 (2 bytes of text, 10 in all)
C13_Witness ==
    /\ phase = "loaded" /\ log = <<>> /\ WellFormed
    /\ self.names = << <<98>>, <<65>> >>
    /\ _read_int32(file, self.name_offset) = -2
    /\ _read_int32(file, self.name_offset + 12) = 2
    /\ self.name_table_end = self.name_offset + 12 + 10

\* The strings looked up: the arguments of the calls and their other case
LookupArgs == NameArgs \cup { <<98>>, <<66>>, <<81>>, <<113>>, <<201>> }

\* The positions (from 1) at which a name occurs in the table of an object
Occurrences(obj, name) == {i \in 1..Len(obj.names) : obj.names[i] = name}

\* C14: find_name_index(name) is the smallest index whose entry equals
\* name character for character, and -1 when there is none; add_name of a
\* name that no entry equals, even one that differs from an entry only in
\* letter case, appends it and returns the new last index.
C14_ExactLookup ==
    phase = "loaded" =>
        /\ \A x \in LookupArgs :
               IF Occurrences(self, x) = {}
               THEN find_name_index(self, x) = -1
               ELSE /\ find_name_index(self, x) + 1 \in Occurrences(self, x)
                    /\ \A i \in Occurrences(self, x) : find_name_index(self, x) + 1 <= i
        /\ (Call.op = "add_name" /\ Occurrences(pre, Call.name) = {}) =>
               /\ self.names = Append(pre.names, Call.name)
               /\ Call.ret = Len(pre.names)

\* "a" was added to a table that holds "A" twice: it went to the tail, and
\* "A" is still found at its first occurrence
C14_Witness ==
    /\ phase = "loaded" /\ Call.op = "add_name" /\ Call.name = <<97>>
    /\ Occurrences(pre, <<65>>) = {2, 3} /\ Occurrences(pre, <<97>>) = {}
    /\ find_name_index(self, <<65>>) = 1
    /\ find_name_index(self, <<97>>) = 3 /\ Call.ret = 3

\* s is an initial part of t
IsPrefix(s, t) == Len(s) <= Len(t) /\ SubSeq(t, 1, Len(s)) = s

\* C15: every step leaves the names it found as an initial part of the
\* names it leaves, so over any sequence of add_name and add_import calls
\* the names of an earlier state are a prefix of those of every later one.
C15_AppendOnly == [][IsPrefix(self.names, self'.names)]_vars

\* An add_name and then an add_import, both of which added names behind
\* the ones that were loaded
C15_Witness ==
    /\ Len(log) = 2 /\ log[1].op = "add_name" /\ log[2].op = "add_import"
    /\ Loaded.names # <<>>
    /\ Len(pre.names) = Len(Loaded.names) + 1
    /\ Len(self.names) = Len(pre.names) + 3
    /\ IsPrefix(Loaded.names, pre.names) /\ IsPrefix(pre.names, self.names)

\* The add_import calls made so far, in order
IsImportCall(c) == c.op = "add_import"
ImportCalls == SelectSeq(log, IsImportCall)

\* The import the k-th add_import call created
CreatedImport(k) == self.imports[Len(Loaded.imports) + k]

\* An int64 index idx of an entry is within the names of obj, resolves to
\* the string and is what find_name_index gives for the string
Names64(obj, idx, string) ==
    /\ Int64InRange(idx, Len(obj.names))
    /\ obj.names[idx.lo.lo + 1] = string
    /\ find_name_index(obj, string) = idx.lo.lo

\* The same for an int32 index
Names32(obj, idx, string) ==
    /\ idx >= 0 /\ idx < Len(obj.names)
    /\ obj.names[idx + 1] = string
    /\ find_name_index(obj, string) = idx

\* C16: in every state, for every import an add_import(cp, cn, on) call
\* created, the three name indices of the import are within the current
\* names, resolve to cp, cn and on, and equal find_name_index of cp, cn, on.
C16_ImportNameIndices ==
    phase = "loaded" =>
        \A k \in 1..Len(ImportCalls) :
            /\ Names64(self, CreatedImport(k).class_package_idx, ImportCalls[k].class_package)
            /\ Names64(self, CreatedImport(k).class_name_idx, ImportCalls[k].class_name)
            /\ Names32(self, CreatedImport(k).object_name_idx, ImportCalls[k].object_name)

\* add_name("A") on a table without "A", then add_import("P", "K", "A"):
\* the object name index is the one add_name returned, the other two are
\* the next two indices
C16_Witness ==
    /\ phase = "loaded" /\ Len(log) = 2
    /\ log[1].op = "add_name" /\ log[1].name = <<65>> /\ log[1].ret = Len(Loaded.names)
    /\ Call.op = "add_import" /\ Call.object_name = <<65>> /\ Call.class_name = <<75>>
    /\ CreatedImport(1).object_name_idx = log[1].ret
    /\ CreatedImport(1).class_package_idx = Int32ToInt64(log[1].ret + 1)
    /\ CreatedImport(1).class_name_idx = Int32ToInt64(log[1].ret + 2)

\* Bit k of a number, and the exclusive or of two bytes bit by bit
BitOf(x, k) == (x \div (2 ^ k)) % 2
XorBit(a, b, k) == IF BitOf(a, k) = BitOf(b, k) THEN 0 ELSE 2 ^ k
XorByte(a, b) ==
    XorBit(a, b, 0) + XorBit(a, b, 1) + XorBit(a, b, 2) + XorBit(a, b, 3)
        + XorBit(a, b, 4) + XorBit(a, b, 5) + XorBit(a, b, 6) + XorBit(a, b, 7)

\* h XOR c for a 32-bit h held as four bytes, least significant first
XorCodepoint(h, c) ==
    << XorByte(h[1], c % 256), XorByte(h[2], (c \div 256) % 256),
       XorByte(h[3], (c \div 65536) % 256), XorByte(h[4], c \div 16777216) >>

\* (x * 0x01000193) mod 2^32 by long multiplication on bytes: the bytes of
\* the multiplier are 0x93, 0x01, 0x00, 0x01, least significant first
TimesPrime(x) ==
    LET s1 == x[1] * 147
        s2 == x[2] * 147 + x[1] + (s1 \div 256)
        s3 == x[3] * 147 + x[2] + (s2 \div 256)
        s4 == x[4] * 147 + x[3] + x[1] + (s3 \div 256)
    IN  << s1 % 256, s2 % 256, s3 % 256, s4 % 256 >>

\* The left fold h := ((h XOR codepoint(c)) * 0x01000193) mod 2^32 over s
RECURSIVE FoldHash(_, _)
FoldHash(h, s) ==
    IF s = <<>> THEN h ELSE FoldHash(TimesPrime(XorCodepoint(h, Head(s))), Tail(s))

\* The hash the fold gives for a name, from 0 over its lowercase form
ExpectedHash(name) == FoldHash(<<0, 0, 0, 0>>, Lower(name))

\* The four hash bytes of the entry for name that starts at byte at of data
WrittenHash(data, at, name) ==
    SubSeq(data, at + 4 + Len(Utf8Encode(name)) + 1 + 1, at + 4 + Len(Utf8Encode(name)) + 1 + 4)

\* Where the last call, and the first call, spliced their entries
LastSplicedAt == SliceIndex(pre.uasset_data, pre.name_table_end)
FirstSplicedAt == SliceIndex(file, Loaded.name_table_end)

\* Both calls made were add_name calls that inserted, of names that differ
\* only in letter case
CasePair ==
    /\ Len(log) = 2 /\ log[1].op = "add_name" /\ InsertedName
    /\ Occurrences(Loaded, log[1].name) = {}
    /\ log[1].name # log[2].name /\ Lower(log[1].name) = Lower(log[2].name)

\* C17: the four bytes add_name writes after the text of a new name are
\* the little-endian form of the fold of h := ((h XOR c) * 0x01000193) mod
\* 2^32, from 0, over the lowercase name, a value in [0, 2^32); two names
\* that differ only in letter case are written with the same hash.
C17_NameHash ==
    /\ InsertedName =>
           /\ WrittenHash(self.uasset_data, LastSplicedAt, Call.name) = ExpectedHash(Call.name)
           /\ \A k \in 1..4 : ExpectedHash(Call.name)[k] \in 0..255
    /\ CasePair =>
           WrittenHash(self.uasset_data, FirstSplicedAt, log[1].name)
               = WrittenHash(self.uasset_data, LastSplicedAt, log[2].name)

\* "A" and then "a" were inserted, both with the hash 1627429043
C17_Witness ==
    /\ CasePair /\ log[1].name = <<65>> /\ Loaded.names # <<>>
    /\ WrittenHash(self.uasset_data, FirstSplicedAt, <<65>>) = <<179, 152, 0, 97>>
    /\ WrittenHash(self.uasset_data, LastSplicedAt, <<97>>) = <<179, 152, 0, 97>>

\* The export data and the companion payload of a parser object
ExportFrame(obj) == << obj.export_count, obj.exports, obj.uexp_data >>

\* C18: no add_name or add_import call changes export_count, the parsed
\* exports or the payload bytes: every step of a loaded session leaves
\* them as they were.
C18_ExportsAndPayloadFrame ==
    [][phase = "loaded" => ExportFrame(self') = ExportFrame(self)]_vars

\* An add_name that inserted and an add_import, on an asset with an export
\* and a payload, which are as they were loaded
C18_Witness ==
    /\ Len(log) = 2 /\ log[1].op = "add_name" /\ Call.op = "add_import"
    /\ Len(self.names) = Len(Loaded.names) + 4
    /\ Len(self.exports) = 1 /\ self.export_count = 1
    /\ self.uexp_data = [present |-> TRUE, bytes |-> <<7, 9>>]
    /\ ExportFrame(self) = << Loaded.export_count, Loaded.exports, uexp_file >>

\* The parser object of the last add_import call after its three add_name
\* calls and before its splice
NamesEnsured ==
    add_name(add_name(add_name(pre, Call.class_package).self, Call.class_name).self,
             Call.object_name).self

\* Where the last add_import call spliced its entry
ImportSplicedAt == self.imports[Len(self.imports)].offset

\* An offset after an insertion of IMPORT_ENTRY_SIZE bytes at p
ShiftedByImport(f, p) == IF f > p THEN f + IMPORT_ENTRY_SIZE ELSE f

\* C19: after add_import has spliced its 28-byte entry at p, every tracked
\* offset that was greater than p when the entry was spliced is 28 more, in
\* memory (export, import) and in the stored header (export, import,
\* depends), and every other tracked offset is as it was.
C19_RelocationAfterImport ==
    Call.op = "add_import" =>
        /\ self.export_offset = ShiftedByImport(NamesEnsured.export_offset, ImportSplicedAt)
        /\ self.import_offset = ShiftedByImport(NamesEnsured.import_offset, ImportSplicedAt)
        /\ \A k \in TrackedOffsetFields :
               CanRead(pre.uasset_data, k, 4) =>
                   _read_int32(self.uasset_data, k)
                       = ShiftedByImport(_read_int32(NamesEnsured.uasset_data, k),
                                         ImportSplicedAt)

\* C20: after a load, name_table_end is the position just after the last
\* entry that was parsed: name_offset plus 4 + text bytes + 4 for each
\* parsed name, however the loop over the name table ended.
C20_NameTableEnd ==
    (phase = "loaded" /\ log = <<>>) =>
        self.name_table_end = EntryStart(file, self.name_offset, Len(self.names))

\* The text of the entry that starts at p, decoded by its encoding
DecodedText(data, p) ==
    IF _read_int32(data, p) < 0 THEN Utf16Decode(EntryText(data, p))
    ELSE Utf8Decode(EntryText(data, p))

\* A text without its last character when that is a NUL
StripOne(s) == IF s # <<>> /\ s[Len(s)] = 0 THEN SubSeq(s, 1, Len(s) - 1) ELSE s

\* C21: every name parsed from a whole name table is the decoded text of
\* its entry with only the last NUL removed: of k >= 1 trailing NULs,
\* k - 1 remain.
C21_StripOneTerminator ==
    (phase = "loaded" /\ log = <<>> /\ WellFormed) =>
        \A i \in 1..Len(self.names) :
            self.names[i] = StripOne(DecodedText(file, EntryStart(file, self.name_offset, i - 1)))

\* The distinct strings of the last add_import call that were not in the
\* name table when it started
NewStrings == Missing(pre, {Call.class_package, Call.class_name, Call.object_name})

\* C22: an add_import call raises name_count, the stored nameCount and the
\* number of names by the number of distinct strings among its three
\* arguments that were not in the name table before the call.
C22_ImportDedupesNames ==
    Call.op = "add_import" =>
        /\ self.name_count = pre.name_count + Cardinality(NewStrings)
        /\ _read_int32(self.uasset_data, NAME_COUNT_POS)
               = _read_int32(pre.uasset_data, NAME_COUNT_POS) + Cardinality(NewStrings)
        /\ Len(self.names) = Len(pre.names) + Cardinality(NewStrings)

\* add_import("P", "P", "A") on a table that holds "A": one name is added
C22_Witness ==
    /\ Call.op = "add_import" /\ Call.class_package = Call.class_name
    /\ Call.object_name = <<65>> /\ find_name_index(pre, <<65>>) >= 0
    /\ NewStrings = { <<80>> }
    /\ self.name_count = pre.name_count + 1

\* add_import of three strings that are all in the table adds no name
C22_NothingNew ==
    /\ Call.op = "add_import" /\ NewStrings = {} /\ self.name_count = pre.name_count
    /\ Len(self.imports) = Len(pre.imports) + 1

\* The bytes (from 1) of the header fields add_name may rewrite
RewrittenHeaderBytes ==
    UNION { (k + 1)..(k + 4) : k \in {NAME_COUNT_POS, EXPORT_OFFSET_POS, IMPORT_OFFSET_POS} }

\* old[0:p] ++ E ++ old[p:]
WithEntryAt(old, p, E) ==
    SubSeq(old, 1, Min(p, Len(old))) \o E \o SubSeq(old, Min(p, Len(old)) + 1, Len(old))

\* Two buffers of the same length that agree on every byte outside a set
AgreeOutside(a, b, bytes) ==
    Len(a) = Len(b) /\ \A i \in (1..Len(a)) \ bytes : a[i] = b[i]

\* C23: after add_name of a new name, the buffer is the old buffer with
\* the entry put in at the old name_table_end, byte for byte, except for
\* the header fields at 41, 53 and 61: it is len(entry) longer and every
\* other byte, before and after the entry, is as it was.
C23_ByteIdenticalFrame ==
    InsertedName =>
        /\ Len(self.uasset_data) = Len(pre.uasset_data) + Len(InsertedEntry)
        /\ AgreeOutside(self.uasset_data,
                        WithEntryAt(pre.uasset_data, InsertedAt, InsertedEntry),
                        RewrittenHeaderBytes)

\* A name added behind an 8-bit and a 16-bit entry that are followed by an
\* import and an export table: the 22 bytes of the two entries are as loaded
C23_Witness ==
    /\ InsertedName /\ Len(log) = 1 /\ WellFormed
    /\ pre.names = << <<65>>, <<98>> >> /\ pre.imports # <<>> /\ pre.exports # <<>>
    /\ pre.export_offset > InsertedAt
    /\ SubSeq(self.uasset_data, pre.name_offset + 1, pre.name_offset + 22)
           = Name_A \o Name_b16

\* An 8-bit entry: [text bytes + 1 as a positive length][text, NUL][hash]
ExpectedEntry(name) ==
    PackInt32(Len(Utf8Encode(name)) + 1) \o Utf8Encode(name) \o <<0>>
        \o ExpectedHash(name)

\* An offset after an insertion of length L at p
ShiftedBy(f, p, L) == IF f > p THEN f + L ELSE f

\* C24: an add_name of a name not in the table has, when it returns, put
\* the 8-bit entry of the name into the buffer at the old name_table_end,
\* appended the name to the names, raised name_count and the stored
\* nameCount by 1, advanced name_table_end by the length of the entry, and
\* relocated the export and import offsets for an insertion of that length
\* at the old name_table_end, in memory and in the header.
C24_AddNameSteps ==
    InsertedName =>
        /\ SubSeq(self.uasset_data, LastSplicedAt + 1,
                  LastSplicedAt + Len(ExpectedEntry(Call.name)))
               = ExpectedEntry(Call.name)
        /\ self.names = Append(pre.names, Call.name)
        /\ Call.ret = Len(pre.names)
        /\ self.name_count = pre.name_count + 1
        /\ _read_int32(self.uasset_data, NAME_COUNT_POS)
               = _read_int32(pre.uasset_data, NAME_COUNT_POS) + 1
        /\ self.name_table_end = pre.name_table_end + Len(ExpectedEntry(Call.name))
        /\ self.export_offset
               = ShiftedBy(pre.export_offset, pre.name_table_end, Len(ExpectedEntry(Call.name)))
        /\ self.import_offset
               = ShiftedBy(pre.import_offset, pre.name_table_end, Len(ExpectedEntry(Call.name)))
        /\ _read_int32(self.uasset_data, EXPORT_OFFSET_POS) = self.export_offset
        /\ _read_int32(self.uasset_data, IMPORT_OFFSET_POS) = self.import_offset

\* add_name of e-acute (two bytes of text) behind two names, with a gap
\* before the import table: an entry of 11 bytes, both offsets 11 more
C24_Witness ==
    /\ InsertedName /\ Call.name = <<233>> /\ Len(pre.names) = 2 /\ Len(log) = 1
    /\ ExpectedEntry(Call.name) = <<3, 0, 0, 0, 195, 169, 0, 203, 110, 1, 233>>
    /\ pre.import_offset > pre.name_table_end
    /\ self.import_offset = pre.import_offset + 11
    /\ self.export_offset = pre.export_offset + 11
    /\ self.name_table_end = pre.name_table_end + 11

(***************************************************************************)
(* The order of the steps inside the calls.  A call is one action of the   *)
(* state machine; the steps it takes on the buffer, in the order of the    *)
(* statements of the source, are given by the operators below: "read" is   *)
(* a read of an insertion point (name_table_end or import_table_end),      *)
(* "splice" a slice insertion, "relocate" a call of _shift_offsets_after   *)
(* for the splice before it.                                               *)
(***************************************************************************)
\* add_name: nothing when the name is found, else read, splice, relocate
NameSteps(obj, name) ==
    IF find_name_index(obj, name) >= 0 THEN <<>> ELSE <<"read", "splice", "relocate">>

\* add_import: the three add_name calls, then read and splice
ImportSteps(obj, class_package, class_name, object_name) ==
    NameSteps(obj, class_package)
        \o NameSteps(add_name(obj, class_package).self, class_name)
        \o NameSteps(add_name(add_name(obj, class_package).self, class_name).self,
                     object_name)
        \o <<"read", "splice">>

\* The steps of the last call
CallSteps ==
    IF Call.op = "add_name" THEN NameSteps(pre, Call.name)
    ELSE IF Call.op = "add_import"
         THEN ImportSteps(pre, Call.class_package, Call.class_name, Call.object_name)
    ELSE <<>>

\* A splice made by a call before the last one was left without relocation
PendingBefore == \E i \in 1..(Len(log) - 1) : log[i].op = "add_import"

\* No step of a sequence reads an insertion point while a splice awaits
\* its relocation; pending says whether one does at the start
RECURSIVE ReadsAfterRelocation(_, _)
ReadsAfterRelocation(pending, steps) ==
    IF steps = <<>> THEN TRUE
    ELSE IF Head(steps) = "read" THEN ~pending /\ ReadsAfterRelocation(pending, Tail(steps))
    ELSE IF Head(steps) = "splice" THEN ReadsAfterRelocation(TRUE, Tail(steps))
    ELSE ReadsAfterRelocation(FALSE, Tail(steps))

\* C25: in every execution no call reads an insertion point while a splice
\* made earlier, in the same call or in a call before it, has not been
\* followed by its relocation; in add_import the three name insertions are
\* relocated before import_table_end is read.
C25_SpliceThenRelocate == ReadsAfterRelocation(PendingBefore, CallSteps)

\* The stored fields of the import entries of a list
EntryFields(imp) ==
    << imp.class_package_idx, imp.class_name_idx, imp.outer_index, imp.object_name_idx >>
FieldsOf(imports) == [i \in 1..Len(imports) |-> EntryFields(imports[i])]

\* The import entries parsed from the buffer of a parser object, by the
\* import offset and count stored in its header
StoredImports(obj) ==
    _parse_imports(obj.uasset_data, _read_int32(obj.uasset_data, IMPORT_OFFSET_POS),
                   _read_int32(obj.uasset_data, IMPORT_COUNT_POS), obj.names).imports

\* C26: after add_name of a new name on a well-formed asset whose import
\* table starts at or after the end of the name table, the import entries
\* parsed from the stored import offset are the ones that were there
\* before the call.
C26_AddNameKeepsImports ==
    (InsertedName /\ WellFormed /\ pre.import_offset >= pre.name_table_end) =>
        FieldsOf(StoredImports(self)) = FieldsOf(StoredImports(pre))

\* The header fields of a buffer that have a counterpart in memory
StoredFields(data) ==
    << _read_int32(data, NAME_COUNT_POS), _read_int32(data, EXPORT_OFFSET_POS),
       _read_int32(data, IMPORT_COUNT_POS), _read_int32(data, IMPORT_OFFSET_POS) >>

C28_CountsMatchSequences ==
    phase = "loaded" =>
        /\ self.name_count = Len(self.names)
        /\ self.import_count = Len(self.imports)
        /\ InsertedName => Call.ret = _read_int32(pre.uasset_data, NAME_COUNT_POS)

(***************************************************************************)
(* patch_uasset_names and the three readers (ToolSpec)                     *)
(***************************************************************************)
\* The length of the inserted entries, counted from the names
RECURSIVE InsertedLength(_)
InsertedLength(names_to_add) ==
    IF names_to_add = <<>> THEN 0
    ELSE 4 + Len(Utf8Encode(Head(names_to_add))) + 1 + 4
             + InsertedLength(Tail(names_to_add))

\* patch_uasset_names returned for a file whose name table ends behind the
\* header
Patched ==
    /\ tool.op = "patch"
    /\ ~tool.patch.err
    /\ Len(file) >= HEADER_SIZE
    /\ tool.patch.name_table_end >= HEADER_SIZE

\* The header field at pos is in the result what it was in the input
FieldKept(pos) == _read_int32(tool.patch.data, pos) = _read_int32(file, pos)

\* The offset at pos is increased by the inserted length exactly when it was
\* greater than the end of the name table
OffsetMoved(pos) ==
    _read_int32(tool.patch.data, pos) =
        IF _read_int32(file, pos) > tool.patch.name_table_end
        THEN _read_int32(file, pos) + InsertedLength(tool.names_to_add)
        ELSE _read_int32(file, pos)

\* C29: patch_uasset_names leaves exportCount (byte 49) and importCount
\* (byte 57) as they were in the input, and increases the export, import and
\* depends offsets (bytes 53, 61, 65) by the total inserted length exactly
\* when they were greater than the end of the name table.
C29_PatchKeepsCounts ==
    Patched =>
        /\ FieldKept(EXPORT_COUNT_POS)
        /\ FieldKept(IMPORT_COUNT_POS)
        /\ OffsetMoved(EXPORT_OFFSET_POS)
        /\ OffsetMoved(IMPORT_OFFSET_POS)
        /\ OffsetMoved(DEPENDS_OFFSET_POS)

\* The three readers ran on a buffer the claim speaks of: valid magic, at
\* least 100 bytes, the load succeeded, at most 1000 declared names
ReadersRan ==
    /\ tool.op = "read"
    /\ Len(file) >= FIND_MIN_SIZE
    /\ tool.parsed.outcome = "ok"
    /\ ~tool.read.err
    /\ _read_int32(file, NAME_COUNT_POS) >= 0
    /\ _read_int32(file, NAME_COUNT_POS) <= FIND_NAME_LIMIT

\* Every name entry the load parsed has a stored length of magnitude 1..999
\* and lies whole in the buffer
RECURSIVE LengthsSmall(_, _, _)
LengthsSmall(data, n, pos) ==
    IF n = 0 THEN TRUE
    ELSE /\ CanRead(data, pos, 4)
         /\ _read_int32(data, pos) # 0
         /\ _read_int32(data, pos) < READ_LENGTH_LIMIT
         /\ _read_int32(data, pos) > -READ_LENGTH_LIMIT
         /\ EntryAfter(data, pos) <= Len(data)
         /\ LengthsSmall(data, n - 1, EntryAfter(data, pos))

\* C30: on a buffer with valid magic, at least 100 bytes, at most 1000
\* declared names and stored lengths of magnitude below 1000,
\* UAssetParser._parse_names, read_name_table and find_name_table return the
\* same sequence of names, 16-bit entries included.
C30_ReadersAgree ==
    (/\ ReadersRan
     /\ LengthsSmall(file, Len(tool.parsed.names), _read_int32(file, NAME_OFFSET_POS)))
        => /\ tool.read.names = tool.parsed.names
           /\ tool.found = tool.parsed.names

====
